---- MODULE Spec2Model ----
(***************************************************************************)
(* Seat reservation and booking engine of the boxoffice application.       *)
(*                                                                         *)
(* One event with a fixed total_seats.  Clients issue CreateHold requests  *)
(* (HoldView.post), ConfirmBooking requests (BookingView.post) and the     *)
(* task queue runs expire_specific_hold for scheduled holds.  Each request *)
(* is a process whose steps are the statements of its handler that read or *)
(* write shared state (the database rows, the Redis lock, the task queue). *)
(*                                                                         *)
(* Time is a discrete clock `now`; one unit is one minute, the unit of     *)
(* ttl_minutes.  How long a single statement of a handler takes is not     *)
(* bounded by the code, so the 10 second lease of the Redis lock running   *)
(* out while its holder is still inside the critical section, and the 5    *)
(* second blocking timeout running out for a waiter, are steps of the      *)
(* environment that may happen whenever the lock is held.                  *)
(*                                                                         *)
(* Database transactions: expire_specific_hold takes a row lock on the     *)
(* hold (select_for_update) and keeps it up to its commit; the booking     *)
(* transaction writes the same row, so it waits for that lock and its      *)
(* writes become visible together at its commit.                           *)
(***************************************************************************)
EXTENDS Integers, FiniteSets, Sequences, TLC

\* ---------------------------------------------------------------- bounds
\* Number of CreateHold requests; request r creates the hold with id r.
MaxHoldReqs == 2
\* Number of ConfirmBooking requests.
MaxBookReqs == 2
\* Last instant of the clock.
MaxTime == 2
\* Largest total_seats of the event, and largest qty of a request.
MaxSeats == 2
\* settings.MAX_HOLD_TTL_MINUTES, the largest ttl_minutes accepted.
MAX_HOLD_TTL_MINUTES == 1
\* How often the queue may deliver the expiry task of one hold (a redelivery
\* duplicates the message).
MaxDeliveries == 2
\* Number of events, and of CreateHold requests spread over them.
MaxEvents == 2
MaxEvReqs == 3

HoldIds == 1..MaxHoldReqs
BookReqs == 1..MaxBookReqs
\* payment_token values a client may send; hold h carries token h, 0 is
\* the token of no hold.
Tokens == 0..MaxHoldReqs
Events == 1..MaxEvents
EvReqs == 1..MaxEvReqs
\* The callers of Metrics.get_or_create_for_event: EventViewSet.create,
\* BookingView.post, expire_specific_hold and EventMetricsView.get.
MetricsCallers == {"create", "book", "expire", "view"}

VARIABLES
    now,          \* timezone.now()
    total_seats,  \* Event.total_seats
    holds,        \* table holds: id -> row (status "NONE": no such row)
    bookings,     \* table bookings: set of rows [hold, booking_id]
    metrics,      \* table metrics: the event's row of stored counters
    marker,       \* Redis keys hold_expiry:<hold>: the key was set and not deleted
    lockHolder,   \* Redis key lock:event_hold:<event>: owning request or 0
    hpc, hqty,    \* CreateHold requests: position in HoldView.post, qty
    bpc, bhold,   \* ConfirmBooking requests: position in BookingView.post, hold
    btok,         \* ConfirmBooking requests: the payment_token of the request
    queue,        \* deliveries of the hold's expiry task the queue may still make
    elock,        \* an expiry transaction holds the row lock of the hold
    nexpired,     \* number of times an expiry run wrote EXPIRED to the hold
    paid,         \* the token of the request that created the hold's Booking (-1: none)
    raced,        \* a validated ConfirmBooking and an expiry run that took the row
                  \* lock at the deadline were under way on the hold at once
    last,         \* the response or task outcome the last step produced
    rpc,          \* GetEventAvailability request: position in the serializer's reads
    ravail, rheld, \* GetEventAvailability request: the values it has read so far
    evlock,       \* Redis keys lock:event_hold:<event>, by name: owning request or 0
    epc, eev,     \* CreateHold requests over several events: position, event
    mrows,        \* table metrics: number of rows of the event
    mpc           \* callers of get_or_create_for_event: position

vars == <<now, total_seats, holds, bookings, metrics, marker, lockHolder, hpc, hqty,
          bpc, bhold, btok, queue, elock, nexpired, paid, raced, last,
          rpc, ravail, rheld, evlock, epc, eev, mrows, mpc>>

holdVars == <<hpc, hqty>>
bookVars == <<bpc, bhold, btok>>
taskVars == <<queue, elock, nexpired>>
readVars == <<rpc, ravail, rheld>>
\* The state of the requests that run beside the hold, booking and expiry
\* handlers.
evVars == <<evlock, epc, eev>>
rowVars == <<mrows, mpc>>
auxVars == <<readVars, evVars, rowVars>>
\* The tables, the lock, the queue and the requests of the handlers above.
coreVars == <<now, total_seats, holds, bookings, metrics, marker, lockHolder, holdVars,
              bookVars, taskVars, paid, raced>>

\* A response of a request (op "hold", "book") or the outcome of a task run
\* (op "expire").  id: the hold; ref: the booking_id a booking returns, the
\* payment_token a created hold returns; retry: the
\* ConfirmBooking repeated, with the hold's token and before the deadline, a
\* booking already made.
Response(op, id, result, ref, retry) ==
    [op |-> op, id |-> id, result |-> result, ref |-> ref, retry |-> retry]

\* The step produced no response.
NoResponse == Response("none", 0, "none", 0, FALSE)

NoHold == [status |-> "NONE", qty |-> 0, expires_at |-> 0, payment_token |-> 0]

\* ---------------------------------------------------------------- models.py
RECURSIVE SumQty(_)
SumQty(S) ==
    IF S = {} THEN 0
    ELSE LET h == CHOOSE x \in S : TRUE IN holds[h].qty + SumQty(S \ {h})

Max(a, b) == IF a >= b THEN a ELSE b

\* hold.booking exists (the reverse side of Booking.hold)
HasBooking(h) == \E bk \in bookings : bk.hold = h

\* Event.held_seats
held_seats == SumQty({h \in HoldIds : holds[h].status = "ACTIVE"})

\* Event.booked_seats
booked_seats == SumQty({h \in HoldIds : HasBooking(h)})

\* Event.available_seats
available_seats == Max(0, total_seats - held_seats - booked_seats)

\* The Metrics row EventViewSet.create makes for a new event.
ZeroMetrics ==
    [total_holds |-> 0, total_bookings |-> 0, total_expiries |-> 0,
     total_held_seats |-> 0, total_booked_seats |-> 0, total_expired_seats |-> 0]

\* Metrics.update_metrics: the counters recomputed from the Hold and Booking
\* rows of the event.
update_metrics ==
    [total_holds        |-> Cardinality({h \in HoldIds : holds[h].status # "NONE"}),
     total_bookings     |-> Cardinality({h \in HoldIds : HasBooking(h)}),
     total_expiries     |-> Cardinality({h \in HoldIds : holds[h].status = "EXPIRED"}),
     total_held_seats   |-> held_seats,
     total_booked_seats |-> booked_seats,
     total_expired_seats |-> SumQty({h \in HoldIds : holds[h].status = "EXPIRED"})]

\* Hold.is_expired
is_expired(h) == now > holds[h].expires_at

\* Booking.hold declared as a plain ForeignKey: no unique index.
BookingNoUniqueIndex(h) == FALSE

\* The unique index of the OneToOneField Booking.hold: an insert for a hold
\* that already has a booking row raises IntegrityError.
BookingUniqueViolation(h) == HasBooking(h)

\* ---------------------------------------------------------------- utils.py
\* redis lock.acquire(): the key is absent
LockFree == lockHolder = 0

\* RedisLock.__exit__ without its release: the key stays until its lease
\* runs out.
ReleaseSkipped(r) == lockHolder

\* RedisLock.__exit__: release() deletes the key only if this request still
\* owns it; LockNotOwnedError is swallowed.
Release(r) == IF lockHolder = r THEN 0 ELSE lockHolder

\* ---------------------------------------------------------------- Init
Init ==
    /\ now = 0
    /\ total_seats \in 1..MaxSeats
    /\ holds = [h \in HoldIds |-> NoHold]
    /\ bookings = {}
    /\ metrics = ZeroMetrics
    /\ marker = [h \in HoldIds |-> FALSE]
    /\ lockHolder = 0
    /\ hpc = [r \in HoldIds |-> "idle"]
    /\ hqty = [r \in HoldIds |-> 0]
    /\ bpc = [b \in BookReqs |-> "idle"]
    /\ bhold = [b \in BookReqs |-> 0]
    /\ btok = [b \in BookReqs |-> 0]
    /\ queue = [h \in HoldIds |-> 0]
    /\ elock = [h \in HoldIds |-> FALSE]
    /\ nexpired = [h \in HoldIds |-> 0]
    /\ paid = [h \in HoldIds |-> -1]
    /\ raced = [h \in HoldIds |-> FALSE]
    /\ last = NoResponse
    /\ rpc = 0
    /\ ravail = 0
    /\ rheld = 0
    /\ evlock = [n \in 0..MaxEvents |-> 0]
    /\ epc = [q \in EvReqs |-> "idle"]
    /\ eev = [q \in EvReqs |-> 0]
    /\ mrows = 0
    /\ mpc = [c \in MetricsCallers |-> "idle"]

\* ---------------------------------------------------------------- clock
Tick ==
    /\ now < MaxTime
    /\ now' = now + 1
    /\ last' = NoResponse
    /\ UNCHANGED <<auxVars, total_seats, holds, bookings, metrics, marker, paid, raced, lockHolder, holdVars, bookVars, taskVars>>

\* ---------------------------------------------------------------- CreateHold
\* HoldCreateSerializer.is_valid: validate() rejects a qty above the
\* availability it reads before the lock is taken (400).  A request that
\* ends without a Hold row leaves nothing behind; its place is free for the
\* next request.  Requests are interchangeable, so place r is used only
\* while the places below it are taken.
HoldValidate(r, qty) ==
    /\ hpc[r] = "idle"
    /\ r > 1 => hpc[r - 1] # "idle"
    /\ IF qty > available_seats
       THEN /\ last' = Response("hold", r, "400", 0, FALSE)
            /\ UNCHANGED <<hpc, hqty>>
       ELSE /\ hpc' = [hpc EXCEPT ![r] = "validated"]
            /\ hqty' = [hqty EXCEPT ![r] = qty]
            /\ last' = NoResponse
    /\ UNCHANGED <<auxVars, now, total_seats, holds, bookings, metrics, marker, paid, raced, lockHolder, bookVars, taskVars>>

\* RedisLock.__enter__, acquired
LockAcquire(r) ==
    /\ hpc[r] = "validated"
    /\ LockFree
    /\ lockHolder' = r
    /\ hpc' = [hpc EXCEPT ![r] = "locked"]
    /\ last' = NoResponse
    /\ UNCHANGED <<auxVars, now, total_seats, holds, bookings, metrics, marker, paid, raced, hqty, bookVars, taskVars>>

\* RedisLock.__enter__, blocking_timeout ran out: the exception is caught by
\* HoldView.post, which answers 500.
LockTimeout(r) ==
    /\ hpc[r] = "validated"
    /\ ~LockFree
    /\ hpc' = [hpc EXCEPT ![r] = "idle"]
    /\ hqty' = [hqty EXCEPT ![r] = 0]
    /\ last' = Response("hold", r, "500", 0, FALSE)
    /\ UNCHANGED <<auxVars, now, total_seats, holds, bookings, metrics, marker, paid, raced, lockHolder, bookVars, taskVars>>

\* The lease of the lock (timeout=10) runs out while its holder is still at
\* work: Redis drops the key.
LockLeaseExpire ==
    /\ lockHolder # 0
    /\ lockHolder' = 0
    /\ last' = NoResponse
    /\ UNCHANGED <<auxVars, now, total_seats, holds, bookings, metrics, marker, paid, raced, holdVars, bookVars, taskVars>>

\* The availability check inside the lock (409 when qty exceeds it).  The
\* two aggregate queries of available_seats are taken as one read.
HoldCheck(r) ==
    /\ hpc[r] = "locked"
    /\ IF hqty[r] > available_seats
       THEN /\ hpc' = [hpc EXCEPT ![r] = "idle"]
            /\ hqty' = [hqty EXCEPT ![r] = 0]
            /\ last' = Response("hold", r, "409", 0, FALSE)
            /\ lockHolder' = Release(r)
       ELSE /\ hpc' = [hpc EXCEPT ![r] = "checked"]
            /\ last' = NoResponse
            /\ UNCHANGED <<hqty, lockHolder>>
    /\ UNCHANGED <<auxVars, now, total_seats, holds, bookings, metrics, marker, paid, raced, bookVars, taskVars>>

\* HoldCreateSerializer.create without the timedelta: expires_at = now.
NewHoldWithoutTtl(r, ttl) ==
    [status |-> "ACTIVE", qty |-> hqty[r], expires_at |-> now, payment_token |-> r]

\* The row HoldCreateSerializer.create inserts: status takes the field's
\* default ACTIVE, expires_at = timezone.now() + ttl_minutes, payment_token
\* is a fresh uuid4 (request r draws token r).
NewHold(r, ttl) ==
    [status |-> "ACTIVE", qty |-> hqty[r], expires_at |-> now + ttl, payment_token |-> r]

\* serializer.save(): HoldCreateSerializer.create inserts the row (autocommit).
\* ok: the INSERT succeeds; otherwise the exception leaves the with block,
\* which releases the lock, and HoldView.post answers 500.
HoldInsert(r, ttl, ok) ==
    /\ hpc[r] = "checked"
    /\ IF ok
       THEN /\ holds' = [holds EXCEPT ![r] = NewHold(r, ttl)]
            /\ hpc' = [hpc EXCEPT ![r] = "inserted"]
            /\ last' = NoResponse
            /\ UNCHANGED <<hqty, lockHolder>>
       ELSE /\ hpc' = [hpc EXCEPT ![r] = "idle"]
            /\ hqty' = [hqty EXCEPT ![r] = 0]
            /\ last' = Response("hold", r, "500", 0, FALSE)
            /\ lockHolder' = Release(r)
            /\ holds' = holds
    /\ UNCHANGED <<auxVars, now, total_seats, bookings, metrics, marker, paid, raced, bookVars, taskVars>>

\* The except of the inner try removed: a failure of apply_async reaches
\* the outer except like any other.
HoldCreatedScheduleUncaught(markerOk, schedOk, metricOk) == markerOk /\ schedOk /\ metricOk

\* The request reaches its 201 response: set_hold_expiry and increment_metric
\* raise nothing; a failure of apply_async is caught and logged by the inner
\* try.
HoldCreated(markerOk, schedOk, metricOk) == markerOk /\ metricOk

\* The rest of the critical section: set_hold_expiry (Redis), apply_async
\* (a failure is logged only), increment_metric (Redis), the response; then
\* the lock is released.  A Redis failure is caught by HoldView.post, which
\* answers 500; the inserted row stays.  The Metrics row is not touched.
HoldFinish(r, markerOk, schedOk, metricOk) ==
    /\ hpc[r] = "inserted"
    /\ marker' = [marker EXCEPT ![r] = markerOk]
    /\ queue' = [queue EXCEPT ![r] = IF markerOk /\ schedOk THEN MaxDeliveries ELSE 0]
    /\ hpc' = [hpc EXCEPT ![r] = IF HoldCreated(markerOk, schedOk, metricOk) THEN "ok" ELSE "failed"]
    /\ last' = IF HoldCreated(markerOk, schedOk, metricOk)
               THEN Response("hold", r, "201", holds[r].payment_token, FALSE)
               ELSE Response("hold", r, "500", 0, FALSE)
    /\ lockHolder' = Release(r)
    /\ UNCHANGED <<auxVars, now, total_seats, holds, bookings, metrics, paid, raced, hqty, bookVars,
                   elock, nexpired>>

\* ---------------------------------------------------------------- ConfirmBooking
\* BookingCreateSerializer.validate without its payment token check.
BookingValidationAnyToken(h, tok) ==
    IF holds[h].status = "NONE" THEN "not_found"
    ELSE IF holds[h].status # "ACTIVE" THEN "not_active"
    ELSE IF is_expired(h) THEN "expired"
    ELSE IF HasBooking(h) THEN "already_booked"
    ELSE "ok"

\* BookingCreateSerializer.validate without its is_expired check.
BookingValidationNoExpiryCheck(h, tok) ==
    IF holds[h].status = "NONE" THEN "not_found"
    ELSE IF holds[h].status # "ACTIVE" THEN "not_active"
    ELSE IF holds[h].payment_token # tok THEN "bad_token"
    ELSE IF HasBooking(h) THEN "already_booked"
    ELSE "ok"

\* BookingCreateSerializer.validate
BookingValidation(h, tok) ==
    IF holds[h].status = "NONE" THEN "not_found"
    ELSE IF holds[h].status # "ACTIVE" THEN "not_active"
    ELSE IF is_expired(h) THEN "expired"
    ELSE IF holds[h].payment_token # tok THEN "bad_token"
    ELSE IF HasBooking(h) THEN "already_booked"
    ELSE "ok"

\* serializer.is_valid(raise_exception=True) of BookingView.post.  The
\* payment_token of a hold is a fresh uuid4 that only the 201 response of
\* its CreateHold discloses, so a request carries it only after that.
\* A request that is answered frees its place (places are interchangeable).
BookingValidate(b, h, tok) ==
    /\ bpc[b] = "idle"
    /\ b > 1 => bpc[b - 1] # "idle"
    /\ (tok # 0 /\ tok = holds[h].payment_token) => hpc[h] = "ok"
    /\ IF BookingValidation(h, tok) = "ok"
       THEN /\ bpc' = [bpc EXCEPT ![b] = "validated"]
            /\ bhold' = [bhold EXCEPT ![b] = h]
            /\ btok' = [btok EXCEPT ![b] = tok]
            /\ raced' = [raced EXCEPT ![h] = @ \/ elock[h]]
            /\ last' = NoResponse
       ELSE /\ last' = Response("book", h, BookingValidation(h, tok), 0,
                                 /\ HasBooking(h)
                                 /\ holds[h].payment_token = tok
                                 /\ now < holds[h].expires_at)
            /\ UNCHANGED <<bpc, bhold, btok, raced>>
    /\ UNCHANGED <<auxVars, now, total_seats, holds, bookings, metrics, marker, paid, lockHolder,
                   holdVars, taskVars>>

\* hasattr(hold, 'booking') inside the transaction: the same Hold instance
\* was asked in validate(), which passed only when there was no booking, and
\* the instance keeps that answer; the row is not read again.
CachedHasBooking(b) == FALSE

\* The booking transaction without hold.save(): the status stays as it was.
BookedHoldsStatusNotSaved(h) == holds

\* The rows the booking transaction writes: the Booking insert and the
\* unconditional UPDATE of the hold's status.
BookedHolds(h) == [holds EXCEPT ![h].status = "BOOKED"]

\* Booking.save: a booking_id no other Booking row carries.
NewBookingId == Cardinality(bookings) + 1

\* with transaction.atomic() of BookingView.post: the Booking insert, the
\* status UPDATE, clear_hold_expiry (Redis, takes effect at once and is not
\* undone by a rollback), the Metrics update and increment_metric (Redis).
\* clearOk: clear_hold_expiry succeeds; restOk: the Metrics update and
\* increment_metric succeed.  An exception rolls the transaction back.
BookingCommit(b, clearOk, restOk) ==
    LET h == bhold[b] IN
    /\ bpc[b] = "validated"
    /\ ~elock[h]
    /\ bpc' = [bpc EXCEPT ![b] = "idle"]
    /\ bhold' = [bhold EXCEPT ![b] = 0]
    /\ btok' = [btok EXCEPT ![b] = 0]
    /\ IF CachedHasBooking(b)
       THEN /\ last' = Response("book", h, "existing",
                                 (CHOOSE bk \in bookings : bk.hold = h).booking_id, FALSE)
            /\ UNCHANGED <<holds, bookings, metrics, marker, paid>>
       ELSE IF BookingUniqueViolation(h)
       THEN /\ last' = Response("book", h, "integrity", 0, FALSE)
            /\ UNCHANGED <<holds, bookings, metrics, marker, paid>>
       ELSE IF clearOk /\ restOk
       THEN /\ bookings' = bookings \cup {[hold |-> h, booking_id |-> NewBookingId]}
            /\ holds' = BookedHolds(h)
            /\ marker' = [marker EXCEPT ![h] = FALSE]
            /\ metrics' = update_metrics'
            /\ paid' = [paid EXCEPT ![h] = btok[b]]
            /\ last' = Response("book", h, "created", NewBookingId, FALSE)
       ELSE /\ last' = Response("book", h, "error", 0, FALSE)
            /\ marker' = [marker EXCEPT ![h] = IF clearOk THEN FALSE ELSE @]
            /\ UNCHANGED <<holds, bookings, metrics, paid>>
    /\ UNCHANGED <<auxVars, now, total_seats, raced, lockHolder, holdVars, taskVars>>

\* ---------------------------------------------------------------- expire_specific_hold
\* The lookup without its status filter: get(id=hold_id).
SelectForUpdateAnyStatus(h) == holds[h].status # "NONE"

\* The lookup filtering the wrong status: exclude(status=EXPIRED).
SelectForUpdateNotExpired(h) == holds[h].status \in {"ACTIVE", "BOOKED"}

\* Hold.objects.select_for_update().get(id=hold_id, status=ACTIVE) finds the row
SelectForUpdate(h) == holds[h].status = "ACTIVE"

\* The queue delivers the task (not before its eta) and the task opens its
\* transaction; a select_for_update on a row locked by another expiry
\* transaction waits for that one's commit.
ExpiryStart(h) ==
    /\ queue[h] > 0
    /\ now >= holds[h].expires_at
    /\ ~elock[h]
    /\ queue' = [queue EXCEPT ![h] = @ - 1]
    /\ IF SelectForUpdate(h)
       THEN /\ elock' = [elock EXCEPT ![h] = TRUE]
            /\ raced' = [raced EXCEPT ![h] =
                            \/ @
                            \/ /\ now = holds[h].expires_at
                               /\ \E b \in BookReqs : bpc[b] = "validated" /\ bhold[b] = h]
            /\ last' = NoResponse
       ELSE /\ last' = Response("expire", h, "notfound", 0, FALSE)
            /\ UNCHANGED <<elock, raced>>
    /\ UNCHANGED <<auxVars, now, total_seats, holds, bookings, metrics, marker, paid, lockHolder,
                   holdVars, bookVars, nexpired>>

\* The body of the transaction and its commit: the status UPDATE,
\* clear_hold_expiry (Redis, not undone by a rollback), the Metrics update and
\* increment_metric (Redis).  clearOk: clear_hold_expiry succeeds; restOk:
\* the Metrics update and increment_metric succeed.  An exception rolls the
\* transaction back and is logged by the task.
ExpiryFinish(h, clearOk, restOk) ==
    /\ elock[h]
    /\ elock' = [elock EXCEPT ![h] = FALSE]
    /\ UNCHANGED <<auxVars, now, total_seats, bookings, paid, raced, lockHolder, holdVars, bookVars, queue>>
    /\ IF is_expired(h)
       THEN IF clearOk /\ restOk
            THEN /\ holds' = [holds EXCEPT ![h].status = "EXPIRED"]
                 /\ nexpired' = [nexpired EXCEPT ![h] = @ + 1]
                 /\ marker' = [marker EXCEPT ![h] = FALSE]
                 /\ metrics' = update_metrics'
                 /\ last' = Response("expire", h, "expired", 0, FALSE)
            ELSE /\ last' = Response("expire", h, "error", 0, FALSE)
                 /\ marker' = [marker EXCEPT ![h] = IF clearOk THEN FALSE ELSE @]
                 /\ UNCHANGED <<holds, nexpired, metrics>>
       ELSE /\ last' = Response("expire", h, "skipped", 0, FALSE)
            /\ UNCHANGED <<holds, nexpired, metrics, marker>>

\* ---------------------------------------------------------------- specification
Next ==
    \/ Tick
    \/ \E r \in HoldIds, qty \in 1..MaxSeats : HoldValidate(r, qty)
    \/ \E r \in HoldIds : LockAcquire(r)
    \/ \E r \in HoldIds : LockTimeout(r)
    \/ LockLeaseExpire
    \/ \E r \in HoldIds : HoldCheck(r)
    \/ \E r \in HoldIds, ttl \in 1..MAX_HOLD_TTL_MINUTES, ok \in BOOLEAN : HoldInsert(r, ttl, ok)
    \/ \E r \in HoldIds, m, s, c \in BOOLEAN : HoldFinish(r, m, s, c)
    \/ \E b \in BookReqs, h \in HoldIds, tok \in Tokens : BookingValidate(b, h, tok)
    \/ \E b \in BookReqs, c, m \in BOOLEAN : BookingCommit(b, c, m)
    \/ \E h \in HoldIds : ExpiryStart(h)
    \/ \E h \in HoldIds, c, m \in BOOLEAN : ExpiryFinish(h, c, m)

Spec == Init /\ [][Next]_vars

\* Progress the deployment provides: the clock advances, a started request
\* or transaction runs to its end, and the queue delivers a scheduled task
\* that is due.
LiveSpec ==
    /\ Spec
    /\ WF_vars(Tick)
    /\ \A r \in HoldIds :
        /\ WF_vars(LockAcquire(r) \/ LockTimeout(r))
        /\ WF_vars(HoldCheck(r))
        /\ WF_vars(\E ttl \in 1..MAX_HOLD_TTL_MINUTES, ok \in BOOLEAN : HoldInsert(r, ttl, ok))
        /\ WF_vars(\E m, s, c \in BOOLEAN : HoldFinish(r, m, s, c))
    /\ \A b \in BookReqs : WF_vars(\E c, m \in BOOLEAN : BookingCommit(b, c, m))
    /\ \A h \in HoldIds :
        /\ WF_vars(ExpiryStart(h))
        /\ WF_vars(\E c, m \in BOOLEAN : ExpiryFinish(h, c, m))

\* ---------------------------------------------------------------- GetEventAvailability
\* EventViewSet.retrieve: EventDetailSerializer renders total, available,
\* held and booked in this order; each of the last three is a property of
\* Event that runs its own queries, in autocommit mode.  First read:
\* available_seats (its two aggregate queries are taken as one read).
ReadAvailable ==
    /\ rpc = 0
    /\ rpc' = 1
    /\ ravail' = available_seats
    /\ last' = NoResponse
    /\ UNCHANGED <<coreVars, evVars, rowVars, rheld>>

\* Second read: held_seats.
ReadHeld ==
    /\ rpc = 1
    /\ rpc' = 2
    /\ rheld' = held_seats
    /\ last' = NoResponse
    /\ UNCHANGED <<coreVars, evVars, rowVars, ravail>>

\* Third read: booked_seats; the response carries total_seats, ravail, rheld
\* and the booked_seats read here.
ReadBooked ==
    /\ rpc = 2
    /\ rpc' = 0
    /\ ravail' = 0
    /\ rheld' = 0
    /\ last' = Response("event", 0, "200", 0, FALSE)
    /\ UNCHANGED <<coreVars, evVars, rowVars>>

\* The handlers as the reader's environment: they run without Redis or
\* database failures and with one ConfirmBooking at a time.
ReadEnv ==
    /\ Next
    /\ bpc'[MaxBookReqs] = "idle"
    /\ last'.result # "error"
    /\ \A r \in HoldIds : hpc'[r] # "failed"

\* The handlers together with a client that reads the event's availability.
ReadNext ==
    \/ ReadEnv
    \/ ReadAvailable
    \/ ReadHeld
    \/ ReadBooked

ReadSpec == Init /\ [][ReadNext]_vars

\* ---------------------------------------------------------------- the lock over several events
\* HoldView.post with one lock name for all events.
lock_name_global(e) == 0

\* lock_name = f"event_hold:{event.id}" (RedisLock prefixes "lock:")
lock_name(e) == e

\* HoldView.post up to the with statement: the request is valid and names
\* event e.
EvRequest(q, e) ==
    /\ epc[q] = "idle"
    /\ epc' = [epc EXCEPT ![q] = "waiting"]
    /\ eev' = [eev EXCEPT ![q] = e]
    /\ last' = NoResponse
    /\ UNCHANGED <<coreVars, readVars, rowVars, evlock>>

\* RedisLock.__enter__, acquired: the key of the request's lock name is absent.
EvAcquire(q) ==
    /\ epc[q] = "waiting"
    /\ evlock[lock_name(eev[q])] = 0
    /\ evlock' = [evlock EXCEPT ![lock_name(eev[q])] = q]
    /\ epc' = [epc EXCEPT ![q] = "inside"]
    /\ last' = NoResponse
    /\ UNCHANGED <<coreVars, readVars, rowVars, eev>>

\* RedisLock.__enter__, blocking_timeout ran out while the key was there:
\* HoldView.post answers 500.
EvTimeout(q) ==
    /\ epc[q] = "waiting"
    /\ evlock[lock_name(eev[q])] # 0
    /\ epc' = [epc EXCEPT ![q] = "idle"]
    /\ eev' = [eev EXCEPT ![q] = 0]
    /\ last' = Response("hold", 0, "500", 0, FALSE)
    /\ UNCHANGED <<coreVars, readVars, rowVars, evlock>>

\* The lease of a key (timeout=10) runs out.
EvLease(n) ==
    /\ evlock[n] # 0
    /\ evlock' = [evlock EXCEPT ![n] = 0]
    /\ last' = NoResponse
    /\ UNCHANGED <<coreVars, readVars, rowVars, epc, eev>>

\* The body of the with block ends (by a response or an exception) and
\* RedisLock.__exit__ releases the key if the request still owns it.
EvExit(q) ==
    /\ epc[q] = "inside"
    /\ evlock' = [evlock EXCEPT ![lock_name(eev[q])] = IF @ = q THEN 0 ELSE @]
    /\ epc' = [epc EXCEPT ![q] = "idle"]
    /\ eev' = [eev EXCEPT ![q] = 0]
    /\ last' = NoResponse
    /\ UNCHANGED <<coreVars, readVars, rowVars>>

EvNext ==
    \/ \E q \in EvReqs, e \in Events : EvRequest(q, e)
    \/ \E q \in EvReqs : EvAcquire(q)
    \/ \E q \in EvReqs : EvTimeout(q)
    \/ \E n \in 0..MaxEvents : EvLease(n)
    \/ \E q \in EvReqs : EvExit(q)

LockSpec == Init /\ [][EvNext]_vars

\* ---------------------------------------------------------------- Metrics.get_or_create_for_event
\* cls.objects.get_or_create(event=event), the lookup: one row is returned,
\* no row sends the caller on to create one, several rows raise
\* MultipleObjectsReturned.
GetMetrics(c) ==
    /\ mpc[c] = "idle"
    /\ mpc' = [mpc EXCEPT ![c] = IF mrows = 0 THEN "missing"
                                 ELSE IF mrows = 1 THEN "got" ELSE "multiple"]
    /\ last' = NoResponse
    /\ UNCHANGED <<coreVars, readVars, evVars, mrows>>

\* get_or_create, the insert after a lookup that found nothing: Metrics.event
\* is a ForeignKey without a unique index, so the insert always succeeds.
CreateMetrics(c) ==
    /\ mpc[c] = "missing"
    /\ mrows' = mrows + 1
    /\ mpc' = [mpc EXCEPT ![c] = "got"]
    /\ last' = NoResponse
    /\ UNCHANGED <<coreVars, readVars, evVars>>

MetricsNext ==
    \/ \E c \in MetricsCallers : GetMetrics(c)
    \/ \E c \in MetricsCallers : CreateMetrics(c)

MetricsSpec == Init /\ [][MetricsNext]_vars

\* ---------------------------------------------------------------- properties
BookingsOf(h) == {bk \in bookings : bk.hold = h}

\* A step of expire_specific_hold for hold h.
ExpiryStep(h) == ExpiryStart(h) \/ \E c, m \in BOOLEAN : ExpiryFinish(h, c, m)

\* C1: in every committed state the qty of the ACTIVE holds plus the qty of
\* the holds that have a Booking is at most the event's total_seats.
C1_CapacityInvariant == held_seats + booked_seats <= total_seats

\* C2: a hold's status never changes once it is EXPIRED or BOOKED, and no
\* hold is both set to EXPIRED by the expiry processor and given a Booking.
C2_TerminalStatusFinal ==
    /\ [](\A h \in HoldIds : ~(nexpired[h] > 0 /\ HasBooking(h)))
    /\ [][\A h \in HoldIds :
            holds[h].status \in {"EXPIRED", "BOOKED"} => holds'[h].status = holds[h].status]_vars

\* C3: at any moment at most one CreateHold request of the event is between
\* its in-lock availability check and its Hold insert.
C3_CreateHoldSerialized == Cardinality({r \in HoldIds : hpc[r] = "checked"}) <= 1

\* C4: a ConfirmBooking that repeats, with the hold's token and before the
\* deadline, a booking already made succeeds and returns the reference of
\* the one Booking of the hold.
C4_IdempotentBooking ==
    (last.op = "book" /\ last.retry) =>
        /\ last.result \in {"created", "existing"}
        /\ BookingsOf(last.id) = {[hold |-> last.id, booking_id |-> last.ref]}

\* C5: expiry processing of one hold writes EXPIRED at most once, and a run
\* that finds the hold not ACTIVE changes no row, takes no lock and ends
\* without an error.
C5_IdempotentExpiry ==
    /\ [](\A h \in HoldIds : nexpired[h] <= 1)
    /\ [][\A h \in HoldIds :
            (ExpiryStep(h) /\ holds[h].status # "ACTIVE") =>
                /\ holds' = holds
                /\ bookings' = bookings
                /\ ~elock'[h]
                /\ last' = Response("expire", h, "notfound", 0, FALSE)]_vars

\* C5 witness: the task ran twice for a hold; the first run expired it and
\* the second found no ACTIVE row.
C5_Witness ==
    \E h \in HoldIds :
        /\ holds[h].status = "EXPIRED" /\ nexpired[h] = 1
        /\ last = Response("expire", h, "notfound", 0, FALSE)

\* C6: a Booking row exists for a hold exactly when the hold's status is
\* BOOKED.
C6_BookingIffBooked ==
    \A h \in HoldIds : HasBooking(h) <=> holds[h].status = "BOOKED"

\* C6 witness: the booking transaction of one hold committed and then the
\* booking transaction of another hold was rolled back.
C6_Witness ==
    \E h1, h2 \in HoldIds :
        /\ HasBooking(h1) /\ holds[h1].status = "BOOKED"
        /\ last.op = "book" /\ last.id = h2 /\ last.result = "error"
        /\ ~HasBooking(h2) /\ holds[h2].status = "ACTIVE"

\* C7: a hold never has more than one Booking row.
C7_AtMostOneBooking == \A h \in HoldIds : Cardinality(BookingsOf(h)) <= 1

\* C7 witness: two requests passed validation for the same hold; one
\* created the Booking, the other one's insert was then refused.
C7_Witness ==
    \E h \in HoldIds :
        /\ last.op = "book" /\ last.id = h /\ last.result = "integrity"
        /\ Cardinality(BookingsOf(h)) = 1

\* C8: a hold that stays unbooked leaves ACTIVE some time after its
\* deadline, whether or not its expiry task was scheduled or delivered.
C8_NoUnboundedHold ==
    \A h \in HoldIds :
        (holds[h].status = "ACTIVE" /\ holds[h].expires_at < MaxTime)
            ~> (holds[h].status # "ACTIVE")

\* C9: a ConfirmBooking that arrives with the hold's token for an ACTIVE hold
\* at now >= expires_at is rejected as expired (and so creates no Booking).
C9_RejectedAtDeadline ==
    [][\A b \in BookReqs, h \in HoldIds, tok \in Tokens :
        (BookingValidate(b, h, tok) /\ holds[h].status = "ACTIVE"
            /\ tok = holds[h].payment_token /\ now >= holds[h].expires_at)
        => (bpc'[b] = "idle" /\ last' = Response("book", h, "expired", 0, FALSE))]_vars

\* C10: an expiry run for a hold that has a Booking leaves the hold's
\* status, the Booking rows and the event's seat counts as they are.
C10_LateExpiryNoOp ==
    [][\A h \in HoldIds :
        (ExpiryStep(h) /\ HasBooking(h)) =>
            /\ holds' = holds
            /\ bookings' = bookings
            /\ ~elock'[h]
            /\ available_seats' = available_seats
            /\ held_seats' = held_seats
            /\ booked_seats' = booked_seats]_vars

\* C10 witness: the task of a hold ran after the hold was booked and found
\* no ACTIVE row; the hold was never expired.
C10_Witness ==
    \E h \in HoldIds :
        /\ holds[h].status = "BOOKED" /\ HasBooking(h)
        /\ nexpired[h] = 0
        /\ last = Response("expire", h, "notfound", 0, FALSE)

\* The class of a CreateHold response: HTTP 409 is the conflict/retry class,
\* 400 the validation-error class, 500 the server-error class.
ConflictClass == {"409"}

\* C11: a CreateHold whose qty exceeds the availability it reads, before the
\* lock or inside it, is answered with the conflict class of response and
\* creates no Hold row, no cache marker and no scheduled task.
C11_InsufficientIsConflict ==
    [][/\ \A r \in HoldIds, qty \in 1..MaxSeats :
            (HoldValidate(r, qty) /\ qty > available_seats) =>
                /\ last'.op = "hold" /\ last'.result \in ConflictClass
                /\ holds' = holds /\ marker' = marker /\ queue' = queue
       /\ \A r \in HoldIds :
            (HoldCheck(r) /\ hqty[r] > available_seats) =>
                /\ last'.op = "hold" /\ last'.result \in ConflictClass
                /\ holds' = holds /\ marker' = marker /\ queue' = queue]_vars

\* C12: every Booking was created by a request that presented the hold's
\* payment_token, and a request with another token for an existing hold is
\* rejected and creates no Booking.
C12_BookingNeedsToken ==
    /\ [](\A h \in HoldIds : HasBooking(h) => paid[h] = holds[h].payment_token)
    /\ [][\A b \in BookReqs, h \in HoldIds, tok \in Tokens :
            (holds[h].status # "NONE" /\ tok # holds[h].payment_token
                /\ BookingValidate(b, h, tok)) =>
                /\ bpc'[b] = "idle"
                /\ last'.op = "book"
                /\ last'.result \in {"not_active", "expired", "bad_token"}
                /\ bookings' = bookings]_vars

\* C12 witness: a hold was booked with its token, and a request with a wrong
\* token for an ACTIVE hold that is not yet due was then rejected for it.
C12_Witness ==
    \E h \in HoldIds :
        /\ HasBooking(h) /\ paid[h] = holds[h].payment_token
        /\ last.op = "book" /\ last.result = "bad_token"
        /\ holds[last.id].status = "ACTIVE" /\ ~HasBooking(last.id)

\* C13: a CreateHold that answered with a failure left no Hold row of its
\* own, and a ConfirmBooking step that answers with a failure changes no
\* Hold row and no Booking row.
C13_NoPartialState ==
    /\ []((last.op = "hold" /\ last.result # "201") => holds[last.id].status = "NONE")
    /\ [][(last'.op = "book" /\ last'.result # "created") =>
            (holds' = holds /\ bookings' = bookings)]_vars

\* C14: when only the scheduling of the expiry task fails, CreateHold still
\* answers 201 with the hold's id and payment_token, and the row stays as it
\* was inserted: ACTIVE, with its expires_at.
C14_ScheduleFailureTolerated ==
    [][\A r \in HoldIds :
        HoldFinish(r, TRUE, FALSE, TRUE) =>
            /\ last' = Response("hold", r, "201", holds[r].payment_token, FALSE)
            /\ holds' = holds
            /\ holds[r].status = "ACTIVE"
            /\ queue'[r] = 0]_vars

\* C14 witness: a CreateHold has just answered 201 for an ACTIVE hold whose
\* expiry task was not scheduled.
C14_Witness ==
    \E r \in HoldIds :
        /\ last = Response("hold", r, "201", holds[r].payment_token, FALSE)
        /\ holds[r].status = "ACTIVE" /\ holds[r].expires_at > now
        /\ marker[r] /\ queue[r] = 0

\* C15: a CreateHold whose wait for the lock runs out is answered with the
\* conflict class of response and leaves no Hold row, no cache marker and no
\* scheduled task.
C15_LockTimeoutIsConflict ==
    [][\A r \in HoldIds :
        LockTimeout(r) =>
            /\ last'.op = "hold" /\ last'.result \in ConflictClass
            /\ holds' = holds /\ marker' = marker /\ queue' = queue
            /\ holds[r].status = "NONE"]_vars

Settled ==
    /\ \A r \in HoldIds : hpc[r] \in {"idle", "ok", "failed"}
    /\ \A b \in BookReqs : bpc[b] = "idle"
    /\ \A h \in HoldIds : ~elock[h]

\* C17: whenever nothing is in flight, the stored Metrics counters equal a
\* fresh recomputation from the Hold and Booking rows.
C17_MetricsEventuallyCorrect == Settled => metrics = update_metrics

\* C18: when only the cache fails (clear_hold_expiry raises), the expiry run
\* of a due ACTIVE hold still sets it EXPIRED and a valid booking still
\* creates its Booking and sets the hold BOOKED.
C18_CacheHasNoCorrectnessRole ==
    [][/\ \A h \in HoldIds :
            (elock[h] /\ is_expired(h) /\ ExpiryFinish(h, FALSE, TRUE)) =>
                holds'[h].status = "EXPIRED"
       /\ \A b \in BookReqs :
            (bpc[b] = "validated" /\ ~HasBooking(bhold[b]) /\ BookingCommit(b, FALSE, TRUE)) =>
                /\ holds'[bhold[b]].status = "BOOKED"
                /\ \E bk \in bookings' : bk.hold = bhold[b]]_vars

\* C19: once a ConfirmBooking with the hold's token and an expiry run that
\* met on an ACTIVE hold at its expiry instant have both finished, exactly
\* one of the two outcomes has happened: the hold has a Booking, or the
\* expiry processor set it EXPIRED; never both and never neither.
C19_BoundaryRace ==
    \A h \in HoldIds :
        (/\ raced[h]
         /\ ~elock[h]
         /\ ~\E b \in BookReqs : bpc[b] = "validated" /\ bhold[b] = h)
        => \/ HasBooking(h) /\ nexpired[h] = 0 /\ holds[h].status = "BOOKED"
           \/ ~HasBooking(h) /\ holds[h].status = "EXPIRED"

\* C20: a CreateHold passes the in-lock check exactly when its qty is at most
\* the availability read there, and the insert of an admitted hold lowers
\* the event's availability by exactly its qty.
C20_AdmissionRule ==
    [][\A r \in HoldIds :
        /\ (hpc[r] = "locked" /\ HoldCheck(r)) =>
                (hpc'[r] = "checked" <=> hqty[r] <= available_seats)
        /\ (hpc[r] = "checked" /\ holds'[r].status = "ACTIVE") =>
                available_seats' = available_seats - hqty[r]]_vars

\* C21: an expiry run that holds the row of an ACTIVE hold and meets no
\* failure leaves the hold alone only when now < expires_at; at
\* now >= expires_at, the scheduled instant included, it sets EXPIRED.
C21_ExpiryDecision ==
    [][\A h \in HoldIds :
        (elock[h] /\ ExpiryFinish(h, TRUE, TRUE)) =>
            IF now < holds[h].expires_at
            THEN holds' = holds
            ELSE holds'[h].status = "EXPIRED"]_vars

\* C22: an EXPIRED hold is counted neither as held nor as booked; the step
\* that expires a hold raises the event's availability by the hold's qty;
\* and no later step gives an EXPIRED hold a Booking or another status.
C22_ExpiredSeatsFreed ==
    /\ [](\A h \in HoldIds : holds[h].status = "EXPIRED" => ~HasBooking(h))
    /\ [][\A h \in HoldIds :
            (holds[h].status = "ACTIVE" /\ holds'[h].status = "EXPIRED") =>
                available_seats' = available_seats + holds[h].qty]_vars
    /\ [][\A h \in HoldIds :
            holds[h].status = "EXPIRED" =>
                (holds'[h].status = "EXPIRED" /\ booked_seats' = booked_seats)]_vars

\* C23: a Hold row is never removed, its qty, expires_at and payment_token
\* never change, and its status changes only from ACTIVE, to EXPIRED or to
\* BOOKED.
C23_HoldFrame ==
    [][\A h \in HoldIds :
        holds[h].status # "NONE" =>
            /\ holds'[h].status # "NONE"
            /\ holds'[h].qty = holds[h].qty
            /\ holds'[h].expires_at = holds[h].expires_at
            /\ holds'[h].payment_token = holds[h].payment_token
            /\ holds'[h].status # holds[h].status =>
                (holds[h].status = "ACTIVE" /\ holds'[h].status \in {"EXPIRED", "BOOKED"})]_vars

\* C25: a Hold row is inserted with status ACTIVE, with expires_at between
\* 1 and MAX_HOLD_TTL_MINUTES after the insert and with the qty of its
\* request; every row has 1 <= qty <= total_seats and a payment_token no
\* other row has.
C25_NewHoldFields ==
    /\ [](\A h \in HoldIds :
            holds[h].status # "NONE" =>
                /\ holds[h].qty \in 1..total_seats
                /\ \A g \in HoldIds \ {h} :
                    holds[g].status # "NONE" => holds[g].payment_token # holds[h].payment_token)
    /\ [][\A r \in HoldIds :
            (holds[r].status = "NONE" /\ holds'[r].status # "NONE") =>
                /\ holds'[r].status = "ACTIVE"
                /\ holds'[r].expires_at - now \in 1..MAX_HOLD_TTL_MINUTES
                /\ holds'[r].qty = hqty[r]]_vars

\* C25 witness: two holds were created at different times, each with its
\* own token and deadline.
C25_Witness ==
    \E g, h \in HoldIds :
        /\ holds[g].status # "NONE" /\ holds[h].status = "ACTIVE"
        /\ holds[g].expires_at < holds[h].expires_at
        /\ holds[g].payment_token # holds[h].payment_token
        /\ holds[h].expires_at = now + MAX_HOLD_TTL_MINUTES

\* C27: an expiry run that fails after its status write ends without
\* raising and leaves the hold ACTIVE with the row otherwise as it was, and
\* a hold whose expiry run failed is expired by a later run.
C27_ExpiryErrorsRetried ==
    /\ [][\A h \in HoldIds :
            (last'.op = "expire" /\ last'.id = h /\ last'.result = "error") =>
                (holds' = holds /\ holds[h].status = "ACTIVE" /\ ~elock'[h])]_vars
    /\ \A h \in HoldIds :
            (last = Response("expire", h, "error", 0, FALSE)) ~> (holds[h].status # "ACTIVE")

\* C28: the transaction that creates the Booking of a hold commits at a time
\* not later than the hold's expires_at.
C28_NoBookingPastDeadline ==
    [][\A h \in HoldIds :
        (~HasBooking(h) /\ HasBooking(h)') => now <= holds[h].expires_at]_vars

\* A ConfirmBooking(h, tok) that validate() refuses: no such hold, hold not
\* ACTIVE, hold expired, or another token.
Refused(h, tok) ==
    \/ holds[h].status # "ACTIVE"
    \/ is_expired(h)
    \/ holds[h].payment_token # tok

\* C29: a ConfirmBooking that is refused is answered at once, never reaches
\* the transaction, and leaves the Hold rows, the Booking rows, the stored
\* Metrics and the cache markers exactly as they were.
C29_RejectedBookingFrame ==
    [][\A b \in BookReqs, h \in HoldIds, tok \in Tokens :
        (Refused(h, tok) /\ BookingValidate(b, h, tok)) =>
            /\ bpc'[b] = "idle"
            /\ last'.op = "book"
            /\ last'.result \in {"not_found", "not_active", "expired", "bad_token"}
            /\ holds' = holds /\ bookings' = bookings
            /\ metrics' = metrics /\ marker' = marker]_vars

\* C29 witness: a ConfirmBooking with the token of an ACTIVE hold whose
\* marker is set was refused as expired, while another hold is booked and
\* counted in the stored Metrics.
C29_Witness ==
    /\ last.op = "book" /\ last.result = "expired"
    /\ holds[last.id].status = "ACTIVE" /\ marker[last.id]
    /\ metrics.total_bookings = 1 /\ bookings # {}

\* C26: the values one GetEventAvailability returns satisfy
\* available = max(0, total - held - booked).
C26_ConsistentSnapshot ==
    [][ReadBooked => ravail = Max(0, total_seats - rheld - booked_seats)]_vars

\* C24: a CreateHold waits in vain for the lock only when a request of its
\* own event owns it, and a waiting request finds its lock free whenever no
\* request of its own event is inside the critical section.
C24_LockPerEvent ==
    /\ [](\A q \in EvReqs :
            (epc[q] = "waiting" /\ \A p \in EvReqs : epc[p] = "inside" => eev[p] # eev[q])
                => evlock[lock_name(eev[q])] = 0)
    /\ [][\A q \in EvReqs :
            (epc[q] = "waiting" /\ EvTimeout(q)) =>
                \E p \in EvReqs \ {q} : epc[p] = "inside" /\ eev[p] = eev[q]]_vars

\* C24 witness: two requests for different events are inside their critical
\* sections at once, each owning its event's lock, while a third waits for
\* one of them.
C24_Witness ==
    \E p, q, w \in EvReqs :
        /\ epc[p] = "inside" /\ epc[q] = "inside" /\ eev[p] # eev[q]
        /\ evlock[lock_name(eev[p])] = p /\ evlock[lock_name(eev[q])] = q
        /\ epc[w] = "waiting" /\ eev[w] = eev[p]

\* C30: the event has at most one Metrics row.
C30_OneMetricsRow == mrows <= 1

====
